---- MODULE Spec2Model ----
(***************************************************************************)
(* Model of the xtts_api_server compatibility shims:                       *)
(*   compatibility_fix.py  (patch_issubclass, patch_coqpit,                *)
(*                          apply_all_patches)                             *)
(*   tts_config_fix.py     (patch_coqpit, patch_tts_config)                *)
(*   pytorch_fix.py        (patched_torch_load, add_safe_globals,          *)
(*                          patch_tts_io, TTSPatchImporter)                *)
(*                                                                         *)
(* A patched global symbol is modelled by the stack of wrappers bound to   *)
(* it: the empty sequence is the library's original, Append is one more    *)
(* wrapper whose delegate is the previous binding.  Index 1 is the         *)
(* innermost wrapper, the last index the outermost one.                    *)
(***************************************************************************)
EXTENDS Integers, Sequences, FiniteSets, TLC

VARIABLES
    coqpit,        \* "missing" | "skewed" (importable, no _deserialize) | "ok"
    ttsAvail,      \* the TTS package (TTS.config, TTS.utils.io) is importable
    ioLoaded,      \* 'TTS.utils.io' in sys.modules
    metaPath,      \* sys.meta_path
    issubclassB,   \* builtins.issubclass
    deserializeB,  \* coqpit.coqpit._deserialize
    loadConfigB,   \* TTS.config.load_config
    torchLoadB,    \* torch.load
    loadFsspecB,   \* TTS.utils.io.load_fsspec
    safeGlobals,   \* XttsConfig registered with torch.serialization
    runs,          \* executions of each shim's installation procedure
    call           \* the call or import request in progress, if any

vars == <<coqpit, ttsAvail, ioLoaded, metaPath, issubclassB, deserializeB,
          loadConfigB, torchLoadB, loadFsspecB, safeGlobals, runs, call>>

bindings == <<issubclassB, deserializeB, loadConfigB, torchLoadB, loadFsspecB>>

(***************************************************************************)
(* Bounds.                                                                 *)
(***************************************************************************)
MaxRuns == 3          \* total executions of installation procedures
MaxDeser == 5         \* cap on the wrappers stacked on _deserialize
RecursionLimit == 4   \* the interpreter's recursion limit, scaled down

(***************************************************************************)
(* Outcomes of a call: a returned value or a raised failure.  A failure    *)
(* message is a sequence of text fragments; `pattern in str(e)` is         *)
(* membership of the fragment.                                             *)
(***************************************************************************)
Return(v) == [kind |-> "return", val |-> v, exc |-> "none", msg |-> <<>>]
Raise(e, m) == [kind |-> "raise", val |-> "none", exc |-> e, msg |-> m]

Contains(msg, frag) == \E i \in 1..Len(msg) : msg[i] = frag

IssubclassFrag == "issubclass() arg 1 must be a class"
Arg2Frag == "issubclass() arg 2 must be a class, a tuple of classes, or a union"
DoesNotMatchFrag == "does not match"
FieldTypeFrag == "field type"
FloatUnionFrag == "float | list[float]"


Front(s) == SubSeq(s, 1, Len(s) - 1)

(***************************************************************************)
(* Exception classes: `except C` also catches the subclasses of C.         *)
(***************************************************************************)
ExcParent(e) == IF e = "JSONDecodeError" THEN "ValueError" ELSE "Exception"

IsInstance(e, classes) == e \in classes \/ ExcParent(e) \in classes

(***************************************************************************)
(* Values handed to the predicate and the deserializer.  inspect.isclass   *)
(* is isinstance(v, type): true of classes only, false of instances, of    *)
(* parameterized generic aliases and of unions.                            *)
(***************************************************************************)
Classes == {"object", "int", "bool", "float"}
NonClasses == {"42", "list[float]", "float | list[float]"}
PyValues == Classes \cup NonClasses

IsClass(v) == v \in Classes

\* __bases__ of a value; a generic alias proxies the attribute of its origin
Bases(v) ==
    CASE v = "bool" -> {"int"}
      [] v = "int" -> {"object"}
      [] v = "float" -> {"object"}
      [] v = "list[float]" -> {"object"}
      [] OTHER -> {}

HasBases(v) == v \in Classes \cup {"list[float]"}

RECURSIVE IsDerived(_, _)
IsDerived(a, b) == a = b \/ \E p \in Bases(a) : IsDerived(p, b)

PyBool(b) == IF b THEN "True" ELSE "False"

\* the interpreter's issubclass, the delegate captured by patch_issubclass
builtin_issubclass(arg1, arg2) ==
    IF ~HasBases(arg1) THEN Raise("TypeError", <<IssubclassFrag>>)
    ELSE IF ~IsClass(arg2) THEN Raise("TypeError", <<Arg2Frag>>)
    ELSE Return(PyBool(IsDerived(arg1, arg2)))

\* variant: the isclass test inverted
safe_issubclass_inverted(o, arg1) ==
    IF o.kind = "raise" /\ IsInstance(o.exc, {"TypeError"})
    THEN IF IsClass(arg1) THEN Return("False") ELSE o
    ELSE o

\* variant: every TypeError answered with False, arg1 not inspected
safe_issubclass_unguarded(o, arg1) ==
    IF o.kind = "raise" /\ IsInstance(o.exc, {"TypeError"})
    THEN Return("False")
    ELSE o

\* safe_issubclass applied to the outcome o of original_issubclass(arg1, arg2)
safe_issubclass(o, arg1) ==
    IF o.kind = "raise" /\ IsInstance(o.exc, {"TypeError"})
    THEN IF ~IsClass(arg1) THEN Return("False") ELSE o
    ELSE o

RECURSIVE CallIssubclass(_, _, _)
CallIssubclass(B, arg1, arg2) ==
    IF B = <<>> THEN builtin_issubclass(arg1, arg2)
    ELSE safe_issubclass(CallIssubclass(Front(B), arg1, arg2), arg1)

(***************************************************************************)
(* The deserializer wrappers.                                              *)
(***************************************************************************)
DeserValues == {"0.5", "abc"}
FieldTypes == {"float", "list[float]", "float | list[float]"}

IssubMsg == <<IssubclassFrag>>
UnionMismatchMsg == <<"0.5", DoesNotMatchFrag, FieldTypeFrag, FloatUnionFrag>>
MismatchMsg == <<DoesNotMatchFrag, FieldTypeFrag, "int">>
DeserMsgs == {IssubMsg, UnionMismatchMsg, MismatchMsg,
              <<DoesNotMatchFrag>>, <<"invalid literal">>}

\* what coqpit's own _deserialize can do with a value: coerce it or fail
DeserOutcomes ==
    {Return("coerced")} \cup
    {Raise(e, m) : e \in {"TypeError", "ValueError", "KeyError"}, m \in DeserMsgs}

IsMismatch(msg) == Contains(msg, DoesNotMatchFrag) /\ Contains(msg, FieldTypeFrag)

\* variant: either fragment alone classifies the failure as a mismatch
safe_deserialize_loose(o, x, field_type) ==
    IF o.kind = "raise" /\ IsInstance(o.exc, {"TypeError", "ValueError"})
    THEN IF Contains(o.msg, IssubclassFrag)
         THEN IF ~IsClass(field_type) THEN Return(x) ELSE o
         ELSE IF Contains(o.msg, DoesNotMatchFrag) \/ Contains(o.msg, FieldTypeFrag)
              THEN Return(x)
              ELSE o
    ELSE o

\* variant: a mismatch is accepted only for a float in a float | list[float]
\* field, the last-resort return is missing
safe_deserialize_uniononly(o, x, field_type) ==
    IF o.kind = "raise" /\ IsInstance(o.exc, {"TypeError", "ValueError"})
    THEN IF Contains(o.msg, IssubclassFrag)
         THEN IF ~IsClass(field_type) THEN Return(x) ELSE o
         ELSE IF IsMismatch(o.msg)
              THEN IF Contains(o.msg, FloatUnionFrag) /\ x = "0.5"
                   THEN Return(x)
                   ELSE o
              ELSE o
    ELSE o

\* compatibility_fix.patch_coqpit.safe_deserialize on the delegate's outcome o
safe_deserialize(o, x, field_type) ==
    IF o.kind = "raise" /\ IsInstance(o.exc, {"TypeError", "ValueError"})
    THEN IF Contains(o.msg, IssubclassFrag)
         THEN IF ~IsClass(field_type) THEN Return(x) ELSE o
         ELSE IF IsMismatch(o.msg)
              THEN Return(x)
              ELSE o
    ELSE o

\* tts_config_fix.patch_coqpit.patched_deserialize on the delegate's outcome o
patched_deserialize(o, value, field_type) ==
    IF o.kind = "raise" /\ IsInstance(o.exc, {"TypeError"})
    THEN IF Contains(o.msg, IssubclassFrag) THEN Return(value) ELSE o
    ELSE o

RECURSIVE CallDeserialize(_, _, _, _)
CallDeserialize(B, o, x, field_type) ==
    IF B = <<>> THEN o
    ELSE LET d == CallDeserialize(Front(B), o, x, field_type)
         IN  IF B[Len(B)] = "safe_deserialize"
             THEN safe_deserialize(d, x, field_type)
             ELSE patched_deserialize(d, x, field_type)

(***************************************************************************)
(* The load_config wrappers.  One call through the binding is evaluated    *)
(* against an environment env:                                             *)
(*   o1  what the library's load_config does before tts_config_fix's       *)
(*       patch_coqpit has been re-applied during the call,                 *)
(*   o2  what it does afterwards (the deserializer binding has changed),   *)
(*   m   what the manual reload (json.load, BaseTTSConfig().from_dict)     *)
(*       does,                                                             *)
(*   canPatch  whether patch_coqpit() of tts_config_fix returns True.      *)
(* st counts the calls of the original loader, the manual reloads and the  *)
(* re-applications of patch_coqpit made so far.                            *)
(***************************************************************************)
LoadOutcomes ==
    {Return("config"),
     Raise("TypeError", IssubMsg),
     Raise("ValueError", MismatchMsg),
     Raise("KeyError", MismatchMsg),
     Raise("TypeError", <<"unexpected keyword">>),
     Raise("RuntimeError", <<"boom">>)}

ManualOutcomes ==
    {Return("manual_config"),
     Raise("FileNotFoundError", <<"No such file">>),
     Raise("ValueError", MismatchMsg),
     Raise("TypeError", IssubMsg)}

St0 == [calls |-> 0, manual |-> 0, repatch |-> 0]

RECURSIVE RunLoadConfig(_, _, _)

\* the library's load_config
original_load_config(st, env) ==
    [out |-> IF st.repatch = 0 THEN env.o1 ELSE env.o2,
     st |-> [st EXCEPT !.calls = @ + 1]]

\* variant: the manual reload runs for every TypeError or ValueError
safe_load_config_anymsg(r, env) ==
    IF /\ r.out.kind = "raise"
       /\ IsInstance(r.out.exc, {"TypeError", "ValueError"})
    THEN [out |-> env.m, st |-> [r.st EXCEPT !.manual = @ + 1]]
    ELSE r

\* compatibility_fix safe_load_config, r the result of its delegate
safe_load_config(r, env) ==
    IF /\ r.out.kind = "raise"
       /\ IsInstance(r.out.exc, {"TypeError", "ValueError"})
       /\ IsMismatch(r.out.msg)
    THEN [out |-> env.m, st |-> [r.st EXCEPT !.manual = @ + 1]]
    ELSE r

\* variant: the retry is made whether or not patch_coqpit() succeeded
patched_load_config_alwaysretry(r, D, env) ==
    IF /\ r.out.kind = "raise"
       /\ IsInstance(r.out.exc, {"TypeError"})
       /\ Contains(r.out.msg, IssubclassFrag)
    THEN IF env.canPatch
         THEN RunLoadConfig(D, [r.st EXCEPT !.repatch = @ + 1], env)
         ELSE RunLoadConfig(D, r.st, env)
    ELSE r

\* tts_config_fix patched_load_config, r the result of its delegate D
patched_load_config(r, D, env) ==
    IF /\ r.out.kind = "raise"
       /\ IsInstance(r.out.exc, {"TypeError"})
       /\ Contains(r.out.msg, IssubclassFrag)
    THEN IF env.canPatch
         THEN RunLoadConfig(D, [r.st EXCEPT !.repatch = @ + 1], env)
         ELSE r
    ELSE r

RunLoadConfig(B, st, env) ==
    IF B = <<>> THEN original_load_config(st, env)
    ELSE LET r == RunLoadConfig(Front(B), st, env)
         IN  IF B[Len(B)] = "safe_load_config"
             THEN safe_load_config(r, env)
             ELSE patched_load_config(r, Front(B), env)

(***************************************************************************)
(* The checkpoint loaders.  A call is (src, map_location, opts), opts the  *)
(* keyword options as a function from the names supplied to their values.  *)
(***************************************************************************)
OptNames == {"weights_only", "pickle_module", "mmap"}

OptVals(k) ==
    CASE k = "weights_only" -> {"True", "False"}
      [] k = "pickle_module" -> {"dill"}
      [] OTHER -> {"True"}

Kwargs ==
    UNION { {f \in [S -> {"True", "False", "dill"}] : \A k \in S : f[k] \in OptVals(k)}
            : S \in SUBSET OptNames }

MapLocations == {"None", "cpu"}

CallArgs == [src : {"model.pth"}, map_location : MapLocations, opts : Kwargs]

WithDefault(opts, k, v) == IF k \in DOMAIN opts THEN opts ELSE opts @@ (k :> v)

\* variant: weights_only is overwritten whether or not the caller gave it
patched_load_fsspec_forced(a) ==
    [src |-> a.src, map_location |-> a.map_location,
     opts |-> [k \in DOMAIN a.opts \cup {"weights_only"} |->
                  IF k = "weights_only" THEN "False" ELSE a.opts[k]]]

\* what patched_load_fsspec passes to original_load_fsspec
patched_load_fsspec(a) ==
    [src |-> a.src, map_location |-> a.map_location,
     opts |-> WithDefault(a.opts, "weights_only", "False")]

\* what patched_torch_load passes to _original_torch_load: pickle_module is
\* a named parameter (default: the pickle module) and is always passed on
patched_torch_load(a) ==
    [src |-> a.src, map_location |-> a.map_location,
     opts |-> WithDefault(WithDefault(a.opts, "weights_only", "False"),
                          "pickle_module", "pickle")]

\* the frames of a call through torch.load, outermost first
RECURSIVE TorchChain(_, _)
TorchChain(B, a) ==
    IF B = <<>> THEN << [fn |-> "torch.load", args |-> a] >>
    ELSE << [fn |-> B[Len(B)], args |-> a] >>
         \o TorchChain(Front(B), patched_torch_load(a))

\* the frames of a call through load_fsspec; the library's load_fsspec opens
\* the path and calls torch.load(f, map_location=map_location, **kwargs)
RECURSIVE FsspecChain(_, _, _)
FsspecChain(B, T, a) ==
    IF B = <<>> THEN << [fn |-> "load_fsspec", args |-> a] >> \o TorchChain(T, a)
    ELSE << [fn |-> B[Len(B)], args |-> a] >>
         \o FsspecChain(Front(B), T, patched_load_fsspec(a))

(***************************************************************************)
(* The import system.  sys.meta_path holds the TTSPatchImporter instances  *)
(* inserted at its head, followed by the interpreter's own finder.  A      *)
(* finder's answer is no spec ("none"), a spec ("spec", with the number of *)
(* times its loader was replaced by a patched_loader function) or a        *)
(* RecursionError ("error"); depth is the deepest find_spec frame entered. *)
(***************************************************************************)
ModuleNames == {"TTS.utils.io", "TTS.config", "json"}

Available(fullname, tts) == IF fullname = "json" THEN TRUE ELSE tts

NoSpec(d) == [kind |-> "none", loaders |-> 0, depth |-> d]

Max(a, b) == IF a >= b THEN a ELSE b

\* the interpreter's path-based finder
PathFinder(fullname, tts, d) ==
    IF Available(fullname, tts)
    THEN [kind |-> "spec", loaders |-> 0, depth |-> d]
    ELSE NoSpec(d)

RECURSIVE find_spec(_, _, _, _)
RECURSIVE FinderLoop(_, _, _, _, _)

\* `for finder in sys.meta_path: spec = finder.find_spec(...)`, from index i,
\* run by a frame at depth d; an exception of a finder propagates
FinderLoop(mp, i, fullname, tts, d) ==
    IF i > Len(mp) THEN NoSpec(d)
    ELSE LET r == IF mp[i] = "TTSPatchImporter"
                  THEN find_spec(mp, fullname, tts, d + 1)
                  ELSE PathFinder(fullname, tts, d)
         IN  IF r.kind \in {"error", "spec"} THEN r
             ELSE LET rest == FinderLoop(mp, i + 1, fullname, tts, d)
                  IN  [rest EXCEPT !.depth = Max(r.depth, rest.depth)]

\* variant: the test of fullname is missing, every name is searched for
find_spec_anyname(mp, fullname, tts, d) ==
    IF d > RecursionLimit
    THEN [kind |-> "error", loaders |-> 0, depth |-> RecursionLimit]
    ELSE LET spec == FinderLoop(mp, 1, fullname, tts, d)
         IN  IF spec.kind = "spec"
             THEN [spec EXCEPT !.loaders = @ + 1]
             ELSE spec

\* TTSPatchImporter.find_spec entered as frame number d
find_spec(mp, fullname, tts, d) ==
    IF d > RecursionLimit
    THEN [kind |-> "error", loaders |-> 0, depth |-> RecursionLimit]
    ELSE IF fullname = "TTS.utils.io"
         THEN LET spec == FinderLoop(mp, 1, fullname, tts, d)
              IN  IF spec.kind = "spec"
                  THEN [spec EXCEPT !.loaders = @ + 1]
                  ELSE spec
         ELSE NoSpec(d)

\* an import statement for a module that is not in sys.modules (or a reload):
\* the import machinery asks the finders of sys.meta_path in order.  A spec
\* whose loader was replaced by the plain function patched_loader cannot be
\* loaded (the function has neither exec_module nor load_module).
ImportModule(mp, fullname, tts) ==
    LET r == FinderLoop(mp, 1, fullname, tts, 0)
    IN  [result |-> CASE r.kind = "error" -> "RecursionError"
                      [] r.kind = "none" -> "ModuleNotFoundError"
                      [] r.kind = "spec" /\ r.loaders > 0 -> "AttributeError"
                      [] OTHER -> "loaded",
         depth |-> r.depth]

RunsTotal == runs.compat + runs.tcf + runs.ptf

\* execution is single-threaded: no call or import is in progress
Idle == call.sym = "none"

(***************************************************************************)
(* The state after interpreter start, before any shim module is executed.  *)
(***************************************************************************)
Init ==
    /\ coqpit \in {"missing", "skewed", "ok"}
    /\ ttsAvail \in BOOLEAN
    /\ ttsAvail => coqpit # "missing"
    /\ ioLoaded = FALSE
    /\ metaPath = <<"PathFinder">>
    /\ issubclassB = <<>>
    /\ deserializeB = <<>>
    /\ loadConfigB = <<>>
    /\ torchLoadB = <<>>
    /\ loadFsspecB = <<>>
    /\ safeGlobals = FALSE
    /\ runs = [compat |-> 0, tcf |-> 0, ptf |-> 0]
    /\ call = [sym |-> "none"]

(***************************************************************************)
(* compatibility_fix.py                                                    *)
(***************************************************************************)
\* patch_issubclass: captures the current binding and rebinds the builtin
patch_issubclass(B) == Append(B, "safe_issubclass")

\* patch_coqpit: wraps _deserialize and then, inside the same try block,
\* TTS.config.load_config; a coqpit that is missing or has no _deserialize
\* leaves both untouched
patch_coqpit(D, L, cq, tts) ==
    IF cq = "ok"
    THEN [deser |-> Append(D, "safe_deserialize"),
          cfg |-> IF tts THEN Append(L, "safe_load_config") ELSE L]
    ELSE [deser |-> D, cfg |-> L]

\* the load_config wrapper that apply_all_patches installs itself
patch_load_config(L, tts) == IF tts THEN Append(L, "safe_load_config") ELSE L

apply_all_patches ==
    /\ Idle
    /\ RunsTotal < MaxRuns
    /\ LET pc == patch_coqpit(deserializeB, loadConfigB, coqpit, ttsAvail)
       IN  /\ issubclassB' = patch_issubclass(issubclassB)
           /\ deserializeB' = pc.deser
           /\ loadConfigB' = patch_load_config(pc.cfg, ttsAvail)
    /\ runs' = [runs EXCEPT !.compat = @ + 1]
    /\ UNCHANGED <<coqpit, ttsAvail, ioLoaded, metaPath, torchLoadB,
                   loadFsspecB, safeGlobals, call>>

(***************************************************************************)
(* tts_config_fix.py                                                       *)
(***************************************************************************)
\* patch_coqpit of tts_config_fix: True iff the wrapper was installed
tcf_patch_coqpit_ok(cq) == cq = "ok"

tcf_patch_coqpit(D, cq) ==
    IF tcf_patch_coqpit_ok(cq) THEN Append(D, "patched_deserialize") ELSE D

patch_tts_config(L, tts) == IF tts THEN Append(L, "patched_load_config") ELSE L

tts_config_fix ==
    /\ Idle
    /\ RunsTotal < MaxRuns
    /\ deserializeB' = tcf_patch_coqpit(deserializeB, coqpit)
    /\ loadConfigB' = patch_tts_config(loadConfigB, ttsAvail)
    /\ runs' = [runs EXCEPT !.tcf = @ + 1]
    /\ UNCHANGED <<coqpit, ttsAvail, ioLoaded, metaPath, issubclassB,
                   torchLoadB, loadFsspecB, safeGlobals, call>>

(***************************************************************************)
(* pytorch_fix.py                                                          *)
(***************************************************************************)
\* hasattr(torch.load, '_pytorch26_patched'): the marker is set on
\* patched_torch_load, so it is found iff that wrapper is the binding
HasMarker(T) == T # <<>> /\ T[Len(T)] = "patched_torch_load"

\* variant: torch.load is wrapped without looking for the marker
patch_torch_load_nomarker(T) == Append(T, "patched_torch_load")

patch_torch_load(T) == IF HasMarker(T) THEN T ELSE Append(T, "patched_torch_load")

\* add_safe_globals: registers XttsConfig when its module can be imported
add_safe_globals(sg, mp, tts) ==
    sg \/ ImportModule(mp, "TTS.tts.configs.xtts_config", tts).result = "loaded"

\* patch_tts_io: import TTS.utils.io (through sys.meta_path when it is not
\* loaded yet) and wrap load_fsspec; any failure of the import is swallowed
patch_tts_io(F, loaded, mp, tts) ==
    IF loaded THEN [io |-> TRUE, fsspec |-> Append(F, "patched_load_fsspec")]
    ELSE IF ImportModule(mp, "TTS.utils.io", tts).result = "loaded"
         THEN [io |-> TRUE, fsspec |-> <<"patched_load_fsspec">>]
         ELSE [io |-> FALSE, fsspec |-> F]

\* sys.meta_path.insert(0, TTSPatchImporter())
install_hook(mp) == <<"TTSPatchImporter">> \o mp

pytorch_fix ==
    /\ Idle
    /\ RunsTotal < MaxRuns
    /\ torchLoadB' = patch_torch_load(torchLoadB)
    /\ safeGlobals' = add_safe_globals(safeGlobals, metaPath, ttsAvail)
    /\ LET p == patch_tts_io(loadFsspecB, ioLoaded, metaPath, ttsAvail)
       IN  /\ ioLoaded' = p.io
           /\ loadFsspecB' = p.fsspec
    /\ metaPath' = install_hook(metaPath)
    /\ runs' = [runs EXCEPT !.ptf = @ + 1]
    /\ UNCHANGED <<coqpit, ttsAvail, issubclassB, deserializeB, loadConfigB,
                   call>>

(***************************************************************************)
(* The environment: a package becomes importable; the application imports  *)
(* or reloads a module.                                                    *)
(***************************************************************************)
InstallCoqpit ==
    /\ Idle
    /\ coqpit = "missing"
    /\ coqpit' \in {"skewed", "ok"}
    /\ UNCHANGED <<ttsAvail, ioLoaded, metaPath, issubclassB, deserializeB,
                   loadConfigB, torchLoadB, loadFsspecB, safeGlobals, runs,
                   call>>

InstallTTS ==
    /\ Idle
    /\ ~ttsAvail
    /\ coqpit # "missing"
    /\ ttsAvail' = TRUE
    /\ UNCHANGED <<coqpit, ioLoaded, metaPath, issubclassB, deserializeB,
                   loadConfigB, torchLoadB, loadFsspecB, safeGlobals, runs,
                   call>>

\* `import <fullname>`: a module found in sys.modules is returned at once,
\* otherwise (and for importlib.reload) the finders are asked
Import(fullname, reload) ==
    /\ Idle
    /\ reload => (fullname = "TTS.utils.io" /\ ioLoaded)
    /\ LET cached == fullname = "TTS.utils.io" /\ ioLoaded /\ ~reload
           r == ImportModule(metaPath, fullname, ttsAvail)
       IN  IF cached
           THEN /\ call' = [sym |-> "import", name |-> fullname, reload |-> reload,
                            result |-> "loaded", depth |-> 0, cached |-> TRUE]
                /\ UNCHANGED <<ioLoaded, loadFsspecB>>
           ELSE /\ call' = [sym |-> "import", name |-> fullname, reload |-> reload,
                            result |-> r.result, depth |-> r.depth,
                            cached |-> FALSE]
                /\ IF fullname = "TTS.utils.io" /\ r.result = "loaded"
                   THEN ioLoaded' = TRUE /\ loadFsspecB' = <<>>
                   ELSE UNCHANGED <<ioLoaded, loadFsspecB>>
    /\ UNCHANGED <<coqpit, ttsAvail, metaPath, issubclassB, deserializeB,
                   loadConfigB, torchLoadB, safeGlobals, runs>>

ImportAny == \E n \in ModuleNames : Import(n, FALSE)

ReloadIo == Import("TTS.utils.io", TRUE)

(***************************************************************************)
(* Calls through the patched symbols.                                      *)
(***************************************************************************)
CallIssubclassAct ==
    \E a \in PyValues, b \in PyValues :
        /\ Idle
        /\ call' = [sym |-> "issubclass", a |-> a, b |-> b,
                    B |-> issubclassB,
                    orig |-> builtin_issubclass(a, b),
                    out |-> CallIssubclass(issubclassB, a, b)]
        /\ UNCHANGED <<coqpit, ttsAvail, ioLoaded, metaPath, issubclassB,
                       deserializeB, loadConfigB, torchLoadB, loadFsspecB,
                       safeGlobals, runs>>

CallDeserializeAct ==
    \E x \in DeserValues, ft \in FieldTypes, o \in DeserOutcomes :
        /\ Idle
        /\ coqpit = "ok"
        /\ call' = [sym |-> "deserialize", x |-> x, ft |-> ft,
                    B |-> deserializeB,
                    orig |-> o,
                    out |-> CallDeserialize(deserializeB, o, x, ft)]
        /\ UNCHANGED <<coqpit, ttsAvail, ioLoaded, metaPath, issubclassB,
                       deserializeB, loadConfigB, torchLoadB, loadFsspecB,
                       safeGlobals, runs>>

RECURSIVE Repeat(_, _)
Repeat(x, n) == IF n = 0 THEN <<>> ELSE <<x>> \o Repeat(x, n - 1)

\* a call of TTS.config.load_config; every patch_coqpit() that a
\* patched_load_config layer runs stacks one more patched_deserialize
CallLoadConfigAct ==
    \E o1 \in LoadOutcomes, o2 \in LoadOutcomes, m \in ManualOutcomes :
        LET env == [o1 |-> o1, o2 |-> o2, m |-> m,
                    canPatch |-> tcf_patch_coqpit_ok(coqpit)]
            r == RunLoadConfig(loadConfigB, St0, env)
        IN  /\ Idle
            /\ ttsAvail
            /\ Len(deserializeB) + r.st.repatch <= MaxDeser
            /\ deserializeB' = deserializeB \o Repeat("patched_deserialize", r.st.repatch)
            /\ call' = [sym |-> "load_config", B |-> loadConfigB,
                        o1 |-> o1, o2 |-> o2, m |-> m,
                        out |-> r.out, calls |-> r.st.calls,
                        manual |-> r.st.manual, repatch |-> r.st.repatch]
            /\ UNCHANGED <<coqpit, ttsAvail, ioLoaded, metaPath, issubclassB,
                           loadConfigB, torchLoadB, loadFsspecB, safeGlobals,
                           runs>>

CallTorchLoadAct ==
    \E a \in CallArgs :
        /\ Idle
        /\ call' = [sym |-> "torch.load", chain |-> TorchChain(torchLoadB, a)]
        /\ UNCHANGED <<coqpit, ttsAvail, ioLoaded, metaPath, issubclassB,
                       deserializeB, loadConfigB, torchLoadB, loadFsspecB,
                       safeGlobals, runs>>

CallLoadFsspecAct ==
    \E a \in CallArgs :
        /\ Idle
        /\ ioLoaded
        /\ call' = [sym |-> "load_fsspec",
                    chain |-> FsspecChain(loadFsspecB, torchLoadB, a)]
        /\ UNCHANGED <<coqpit, ttsAvail, ioLoaded, metaPath, issubclassB,
                       deserializeB, loadConfigB, torchLoadB, loadFsspecB,
                       safeGlobals, runs>>

\* the call in progress returns (or raises) to its caller; its record is
\* not kept
CallReturns ==
    /\ ~Idle
    /\ call' = [sym |-> "none"]
    /\ UNCHANGED <<coqpit, ttsAvail, ioLoaded, metaPath, issubclassB,
                   deserializeB, loadConfigB, torchLoadB, loadFsspecB,
                   safeGlobals, runs>>

Next ==
    \/ apply_all_patches
    \/ tts_config_fix
    \/ pytorch_fix
    \/ InstallCoqpit
    \/ InstallTTS
    \/ ImportAny
    \/ ReloadIo
    \/ CallIssubclassAct
    \/ CallDeserializeAct
    \/ CallLoadConfigAct
    \/ CallTorchLoadAct
    \/ CallLoadFsspecAct
    \/ CallReturns

Spec == Init /\ [][Next]_vars

TypeOK ==
    /\ coqpit \in {"missing", "skewed", "ok"}
    /\ ttsAvail \in BOOLEAN
    /\ ioLoaded \in BOOLEAN
    /\ RunsTotal <= MaxRuns
    /\ Len(deserializeB) <= MaxDeser + MaxRuns

(***************************************************************************)
(* Properties.                                                             *)
(***************************************************************************)
Range(f) == {f[i] : i \in DOMAIN f}

\* C1: after one or more runs of the installation procedures every patched
\* symbol carries at most one wrapper (no symbol is wrapped twice).
C1_WrappedAtMostOnce ==
    RunsTotal >= 1 =>
        /\ Len(issubclassB) <= 1
        /\ Len(deserializeB) <= 1
        /\ Len(loadConfigB) <= 1
        /\ Len(torchLoadB) <= 1
        /\ Len(loadFsspecB) <= 1

\* the import request in progress is one for 'TTS.utils.io' that reaches the
\* installed hook at the head of sys.meta_path
HookAsked ==
    /\ call.sym = "import"
    /\ call.name = "TTS.utils.io"
    /\ ~call.cached
    /\ metaPath[1] = "TTSPatchImporter"

\* C2: whenever the hook has been asked about 'TTS.utils.io' (first import,
\* a further import, a reload), the module is loaded and load_fsspec carries
\* exactly one wrapper.
C2_HookWrapsExactlyOnce ==
    (HookAsked /\ ttsAvail) => (ioLoaded /\ Len(loadFsspecB) = 1)

\* C3: a request for 'TTS.utils.io' that reaches the installed hook ends
\* with the module loaded, and the hook's find_spec is entered once, not
\* re-entered from its own search of sys.meta_path.
C3_FindSpecTerminates ==
    (HookAsked /\ ttsAvail) => (call.result = "loaded" /\ call.depth = 1)

IssubclassCall == call.sym = "issubclass" /\ call.B # <<>>

\* C4 (as stated): for every first argument that is not a class and every
\* second argument the hardened predicate returns False.
C4_NonTypeAlwaysFalse ==
    (IssubclassCall /\ ~IsClass(call.a)) => call.out = Return("False")

\* C4 (amended): for a first argument that is not a class the hardened
\* predicate returns False whenever the original raises a TypeError, and
\* returns the original's boolean when the original returns one.
C4_NonTypeFalseWhenOriginalRaises ==
    (IssubclassCall /\ ~IsClass(call.a)) =>
        /\ call.out.kind = "return"
        /\ (call.orig.kind = "raise" /\ call.orig.exc = "TypeError")
              => call.out = Return("False")
        /\ call.orig.kind = "return" => call.out = call.orig

C4_Witness ==
    /\ IssubclassCall
    /\ call.a = "42" /\ call.b = "int"
    /\ call.orig = Raise("TypeError", IssubMsg)
    /\ call.out = Return("False")

\* C5: for a first argument that is a class the hardened predicate has the
\* outcome of the original: the same boolean or the same raised failure.
C5_TypeArgSameAsOriginal ==
    (IssubclassCall /\ IsClass(call.a)) => call.out = call.orig

C5_Witness ==
    /\ IssubclassCall
    /\ call.a = "int" /\ call.b = "42"
    /\ call.out = Raise("TypeError", <<Arg2Frag>>)

CheckpointCall == call.sym \in {"torch.load", "load_fsspec"}

IsWrapperFrame(fr) == fr.fn \in {"patched_torch_load", "patched_load_fsspec"}

\* C6: a wrapper called without weights_only calls its delegate with the
\* caller's source, map_location and options plus weights_only=False, and
\* nothing else.
C6_OnlyWeightsOnlyAdded ==
    CheckpointCall =>
        \A i \in 1..(Len(call.chain) - 1) :
            (IsWrapperFrame(call.chain[i])
             /\ "weights_only" \notin DOMAIN call.chain[i].args.opts)
            => call.chain[i + 1].args =
                  [call.chain[i].args EXCEPT
                      !.opts = @ @@ ("weights_only" :> "False")]

\* C7: a wrapper forwards an explicit weights_only unchanged to its delegate
\* and injects False only when the flag is absent; through any nesting the
\* original loader receives the caller's explicit value.
C7_ExplicitWeightsOnlyForwarded ==
    CheckpointCall =>
        LET ch == call.chain
            n == Len(ch)
            given(i) == "weights_only" \in DOMAIN ch[i].args.opts
        IN  /\ \A i \in 1..(n - 1) :
                  IsWrapperFrame(ch[i]) =>
                      /\ given(i + 1)
                      /\ ch[i + 1].args.opts["weights_only"] =
                            IF given(i) THEN ch[i].args.opts["weights_only"]
                            ELSE "False"
            /\ given(1) =>
                  /\ given(n)
                  /\ ch[n].args.opts["weights_only"] = ch[1].args.opts["weights_only"]

C7_Witness ==
    /\ call.sym = "load_fsspec"
    /\ Len(call.chain) >= 4
    /\ call.chain[1].fn = "patched_load_fsspec"
    /\ "weights_only" \in DOMAIN call.chain[1].args.opts
    /\ call.chain[1].args.opts["weights_only"] = "True"
    /\ call.chain[Len(call.chain)].fn = "torch.load"
    /\ call.chain[Len(call.chain) - 1].fn = "patched_torch_load"
    /\ call.chain[Len(call.chain)].args.opts["weights_only"] = "True"

DeserializeCall == call.sym = "deserialize" /\ call.B # <<>>

\* C8: when the original deserializer fails with the TypeError
\* 'issubclass() arg 1 must be a class', the installed wrapper returns the
\* input value iff the declared type is not a class, and re-raises the
\* failure when it is a class.
C8_IssubclassFailureByDeclaredType ==
    (DeserializeCall /\ call.orig = Raise("TypeError", IssubMsg)) =>
        IF IsClass(call.ft) THEN call.out = call.orig
        ELSE call.out = Return(call.x)

\* C9: a failure of the original deserializer that is neither the
\* issubclass failure nor a 'does not match ... field type' failure is
\* re-raised unchanged, and a successful result is returned unchanged.
C9_UnclassifiedReraised ==
    DeserializeCall =>
        /\ call.orig.kind = "return" => call.out = call.orig
        /\ (/\ call.orig.kind = "raise"
            /\ ~Contains(call.orig.msg, IssubclassFrag)
            /\ ~IsMismatch(call.orig.msg))
           => call.out = call.orig

C9_Witness ==
    /\ DeserializeCall
    /\ "safe_deserialize" \in Range(call.B)
    /\ call.orig = Raise("ValueError", <<DoesNotMatchFrag>>)
    /\ call.out = call.orig

LoadConfigCall == call.sym = "load_config" /\ call.B # <<>>

OtherLoadFailure == call.o1.kind = "raise" /\ ~IsMismatch(call.o1.msg)

NoRecovery ==
    /\ call.out = call.o1
    /\ call.manual = 0
    /\ call.calls = 1
    /\ call.repatch = 0

\* C10 (as stated): when the original load_config fails with anything other
\* than a 'does not match ... field type' failure, the installed wrapper
\* re-raises it unchanged, with no manual reload and no second call of the
\* original loader.
C10_OtherFailureReraised ==
    (LoadConfigCall /\ OtherLoadFailure) => NoRecovery

\* the failure on which tts_config_fix's patched_load_config retries
RetriedFailure ==
    /\ "patched_load_config" \in Range(call.B)
    /\ call.o1.exc = "TypeError"
    /\ Contains(call.o1.msg, IssubclassFrag)
    /\ tcf_patch_coqpit_ok(coqpit)

\* C10 (amended): the same, except for a TypeError 'issubclass() arg 1 must
\* be a class' while tts_config_fix's patched_load_config is installed and
\* its patch_coqpit succeeds: that wrapper then retries the original.
C10_OtherFailureReraisedUnlessRetried ==
    (LoadConfigCall /\ OtherLoadFailure /\ ~RetriedFailure) => NoRecovery

C10_Witness ==
    /\ LoadConfigCall
    /\ "patched_load_config" \in Range(call.B)
    /\ "safe_load_config" \in Range(call.B)
    /\ call.o1 = Raise("TypeError", <<"unexpected keyword">>)
    /\ call.out = call.o1
    /\ call.calls = 1

MismatchLoadFailure ==
    /\ call.o1.kind = "raise"
    /\ call.o1.exc \in {"TypeError", "ValueError"}
    /\ IsMismatch(call.o1.msg)

\* C11: when the original load_config fails with a 'does not match ... field
\* type' failure, the manual reload is performed exactly once, also under
\* nested load_config wrappers, and its result (the populated object or its
\* own failure) is what the caller gets.
C11_ManualReloadExactlyOnce ==
    (LoadConfigCall /\ "safe_load_config" \in Range(call.B) /\ MismatchLoadFailure)
        => (call.manual = 1 /\ call.out = call.m)

\* C12: whenever a load_config wrapper is installed, a deserializer wrapper
\* is installed too, and a manual reload never runs while _deserialize is
\* unpatched.
C12_DeserializerPatchedFirst ==
    /\ loadConfigB # <<>> => deserializeB # <<>>
    /\ (call.sym = "load_config" /\ call.manual > 0) => deserializeB # <<>>

ImportLoaded(fullname) ==
    /\ call.sym = "import"
    /\ call.name = fullname
    /\ ~call.cached

\* C13: once a shim has run, a later import of its target module leaves the
\* module's entry point bound to a wrapper: load_config after TTS.config is
\* imported, load_fsspec after TTS.utils.io is imported.
C13_DeferredPatchApplied ==
    /\ (ImportLoaded("TTS.config") /\ call.result = "loaded"
        /\ runs.compat + runs.tcf >= 1)
       => loadConfigB # <<>>
    /\ (ImportLoaded("TTS.utils.io") /\ ttsAvail /\ runs.ptf >= 1)
       => (ioLoaded /\ loadFsspecB # <<>>)

C15_NonMatchingNoOpinion ==
    [][(/\ call.sym = "none"
        /\ call'.sym = "import"
        /\ call'.name # "TTS.utils.io")
       => /\ UNCHANGED <<bindings, metaPath, ioLoaded, safeGlobals>>
          /\ call'.result = IF Available(call'.name, ttsAvail)
                            THEN "loaded" ELSE "ModuleNotFoundError"
          /\ call'.depth <= 1]_vars

C15_Witness ==
    /\ call.sym = "import"
    /\ call.name = "TTS.config"
    /\ metaPath[1] = "TTSPatchImporter"
    /\ call.result = "loaded"
    /\ call.depth = 1

HookCount == Cardinality({i \in DOMAIN metaPath : metaPath[i] = "TTSPatchImporter"})

\* C16: sys.meta_path holds at most one TTSPatchImporter, however often the
\* shim is executed.
C16_AtMostOneRegistration == HookCount <= 1

\* C17: a call through a wrapped symbol leaves every binding of the shim
\* unchanged.
C17_CallsLeaveBindings ==
    [][(call.sym = "none" /\ call'.sym \notin {"none", "import"})
       => UNCHANGED bindings]_vars

\* C18: however often the body of pytorch_fix is executed, torch.load is
\* bound to exactly one patched_torch_load over the original, and a call
\* reaches the original after one wrapper level.
C18_TorchLoadWrappedOnce ==
    /\ torchLoadB = IF runs.ptf = 0 THEN <<>> ELSE <<"patched_torch_load">>
    /\ (call.sym = "torch.load" /\ runs.ptf >= 1)
       => /\ Len(call.chain) = 2
          /\ call.chain[1].fn = "patched_torch_load"
          /\ call.chain[2].fn = "torch.load"

C18_Witness ==
    /\ runs.ptf >= 2
    /\ call.sym = "torch.load"
    /\ Len(call.chain) = 2

TcfLayers(B) == Cardinality({i \in DOMAIN B : B[i] = "patched_load_config"})

IssubLoadFailure ==
    /\ call.o1.kind = "raise"
    /\ call.o1.exc = "TypeError"
    /\ Contains(call.o1.msg, IssubclassFrag)

\* C19: a patched_load_config calls its original at most twice.  Installed
\* directly over the library's loader: on the issubclass TypeError it
\* re-applies patch_coqpit and, if that succeeds, retries once and hands on
\* whatever the retry gives; if patch_coqpit fails the first failure is
\* re-raised with no retry; any other outcome is handed on after one call.
\* Stacked k deep, the layers call the library's loader at most 2^k times.
C19_RetryAtMostOnce ==
    (LoadConfigCall /\ TcfLayers(call.B) >= 1) =>
        /\ call.calls <= 2 ^ TcfLayers(call.B)
        /\ call.repatch < 2 ^ TcfLayers(call.B)
        /\ call.B = <<"patched_load_config">> =>
              IF IssubLoadFailure
              THEN IF tcf_patch_coqpit_ok(coqpit)
                   THEN call.calls = 2 /\ call.repatch = 1 /\ call.out = call.o2
                   ELSE call.calls = 1 /\ call.repatch = 0 /\ call.out = call.o1
              ELSE call.calls = 1 /\ call.repatch = 0 /\ call.out = call.o1

C19_Witness ==
    /\ call.sym = "load_config"
    /\ call.B = <<"patched_load_config">>
    /\ call.o1 = Raise("TypeError", IssubMsg)
    /\ call.o2 = Raise("TypeError", IssubMsg)
    /\ call.calls = 2
    /\ call.repatch = 1
    /\ call.out = call.o2

====
